---- MODULE Spec2Model ----
(***************************************************************************)
(* zonis.server.Server: the connection registry, the IDENTIFY handshake    *)
(* (parse_identify), request, request_all and disconnect, as coroutines of *)
(* one asyncio event loop.  A coroutine runs without interruption between  *)
(* two awaits of the transport (send / recv); every action below is one    *)
(* such uninterrupted segment.                                             *)
(***************************************************************************)
EXTENDS Integers, Sequences, FiniteSets, TLC

\* ------------------------------------------------------------- bounds
\* websocket objects handed to the server (one handshake each)
NConns == 2
\* calls of request / request_all the caller makes, one after the other
MaxCalls == 1

Conns == 1..NConns

\* ------------------------------------------------------ value domains
\* Python None (dict.get default, absent optional field)
None == "<None>"
\* a key the packet dictionary does not hold (subscripting it raises KeyError)
Missing == "<missing>"
\* dict.get(identifier) on an absent key
NoConn == 0

Ids == {"A", "B"}
Routes == {"ping"}
Arguments == {"{}"}
SecretKeyParams == {"s1"}
OverrideKeyParams == {None, "", "k1"}
\* secrets.token_hex(64): a fresh non-empty string
TokenHex == "tok"

UnexpectedTypeCode == 4101
InvalidSecretCode == 4100
DuplicateCode == 4102

\* client -> server IDENTIFY payloads
NoData == [present |-> FALSE, secret_key |-> Missing, override_key |-> None]
IdentifyData ==
    [present : {TRUE}, secret_key : {"", "s1", "s2"},
     override_key : {None, "", "k1", TokenHex}]
    \cup [present : {TRUE}, secret_key : {Missing}, override_key : {None}]
OtherData ==
    [present : {TRUE}, secret_key : {"", "s1"}, override_key : {None}]
\* first packets a connection may offer to parse_identify
ClientPackets ==
    [identifier : Ids, type : {"IDENTIFY"}, data : IdentifyData \cup {NoData}]
    \cup [identifier : Ids, type : {"REQUEST", Missing}, data : OtherData]

\* client -> server replies to a REQUEST
Replies ==
    {[type |-> "RESPONSE", data |-> "pong"],
     [type |-> "FAILURE_RESPONSE", data |-> "boom"],
     [type |-> "REQUEST", data |-> "echo"]}
NoReply == [type |-> "", data |-> ""]

\* server -> client packets
NullData == [null |-> TRUE, route |-> "", arguments |-> ""]
RequestPacket(route, arguments) ==
    [null |-> FALSE, route |-> route, arguments |-> arguments]
Packet(identifier, type, data) ==
    [identifier |-> identifier, type |-> type, data |-> data]

\* results of coroutines
Pending == [kind |-> "pending", exc |-> "", value |-> ""]
Return(v) == [kind |-> "return", exc |-> "", value |-> v]
Raise(e, v) == [kind |-> "raise", exc |-> e, value |-> v]

VARIABLES
    using_fastapi_websockets,  \* Server.using_fastapi_websockets
    _secret_key,               \* Server._secret_key
    _override_key,             \* Server._override_key
    entries,                   \* Server._connections: the dict's entry array
    hs,                        \* per websocket: its parse_identify coroutine
    req,                       \* the request() coroutine
    ra,                        \* the request_all() coroutine
    calls,                     \* calls of request / request_all made so far
    sent,                      \* per websocket: packets the server sent, in order
    reads,                     \* per websocket: receive calls made by the server
    closeCodes,                \* per websocket: codes of websocket.close calls
    peerClosed,                \* per websocket: the transport reports it closed
    removed                    \* the identifier last disconnected, until a handshake for it returns

vars ==
    <<using_fastapi_websockets, _secret_key, _override_key, entries, hs, req, ra,
      calls, sent, reads, closeCodes, peerClosed, removed>>

config == <<using_fastapi_websockets, _secret_key, _override_key>>

\* ------------------------------------------- self._connections (a dict)
\* CPython keeps a dict's items in an entry array in insertion order; a deleted
\* item leaves a dummy slot, a new key is appended, an existing key is updated
\* in place.
DummyKey == "<dummy>"
Dummy == [key |-> DummyKey, conn |-> NoConn]

LiveSlots(es) == {k \in 1..Len(es) : es[k].key # DummyKey}
Keys(es) == {es[k].key : k \in LiveSlots(es)}
Used(es) == Cardinality(LiveSlots(es))
SlotOf(es, id) == CHOOSE k \in LiveSlots(es) : es[k].key = id

\* self._connections.get(identifier)
Get(es, id) == IF id \in Keys(es) THEN es[SlotOf(es, id)].conn ELSE NoConn

\* mutant: the item is appended even when the key is already there
SetItem_Append(es, id, conn) == Append(es, [key |-> id, conn |-> conn])

\* self._connections[identifier] = websocket
SetItem(es, id, conn) ==
    IF id \in Keys(es)
    THEN [es EXCEPT ![SlotOf(es, id)] = [key |-> id, conn |-> conn]]
    ELSE Append(es, [key |-> id, conn |-> conn])

\* mutant: the whole dict is cleared
Pop_All(es, id) == [k \in 1..Len(es) |-> Dummy]

\* self._connections.pop(identifier, None)
Pop(es, id) ==
    IF id \in Keys(es) THEN [es EXCEPT ![SlotOf(es, id)] = Dummy] ELSE es

\* ------------------------------------------------------------ transport
\* what conn.send / conn.send_text raises on a connection reported closed
SendClosedError ==
    IF using_fastapi_websockets THEN "WebSocketDisconnect" ELSE "ConnectionClosedOK"

\* what Server._recv raises on a connection reported closed, by transport mode:
\* receive_text's WebSocketDisconnect is turned into RequestFailed, recv's
\* ConnectionClosedOK is let through
RecvClosedErrorOf(fastapi) ==
    IF fastapi
    THEN Raise("RequestFailed", "Websocket disconnected while waiting for receive.")
    ELSE Raise("ConnectionClosedOK", "")

RecvClosedError == RecvClosedErrorOf(using_fastapi_websockets)

\* ------------------------------------------------------ parse_identify
\* Python truthiness of an optional string: None and "" are false
Falsy(v) == v = None \/ v = ""

\* packet["type"] / packet["data"]["secret_key"] raise on a missing field
TypeMissing(packet) == packet.type = Missing
SecretMissing(packet) == ~packet.data.present \/ packet.data.secret_key = Missing

\* ws_type != "IDENTIFY"
UnexpectedType(packet) == packet.type # "IDENTIFY"

\* mutant: the secret is not compared
SecretRejected_Skipped(packet) == FALSE

\* secret_key != self._secret_key
SecretRejected(packet) == packet.data.secret_key # _secret_key

\* mutant: any non-empty override_key is taken for the configured one
DuplicateRejected_AnyKey(packet) ==
    /\ packet.identifier \in Keys(entries)
    /\ Falsy(packet.data.override_key)

\* identifier in self._connections and
\* (not override_key or override_key != self._override_key)
DuplicateRejected(packet) ==
    /\ packet.identifier \in Keys(entries)
    /\ \/ Falsy(packet.data.override_key)
       \/ packet.data.override_key # _override_key

\* mutant: the secret is compared before the type
IdentifyOutcome_SecretFirst(packet) ==
    IF TypeMissing(packet) THEN [close |-> 0, exc |-> "KeyError"]
    ELSE IF SecretMissing(packet) THEN [close |-> 0, exc |-> "KeyError"]
    ELSE IF SecretRejected(packet)
    THEN [close |-> InvalidSecretCode, exc |-> "BaseZonisException"]
    ELSE IF UnexpectedType(packet)
    THEN [close |-> UnexpectedTypeCode, exc |-> "BaseZonisException"]
    ELSE IF DuplicateRejected(packet)
    THEN [close |-> DuplicateCode, exc |-> "DuplicateConnection"]
    ELSE [close |-> 0, exc |-> ""]

\* the checks of parse_identify in the order of the code: the close code sent
\* (0: none) and the exception raised inside the try block ("": none)
IdentifyOutcome(packet) ==
    IF TypeMissing(packet) THEN [close |-> 0, exc |-> "KeyError"]
    ELSE IF UnexpectedType(packet)
    THEN [close |-> UnexpectedTypeCode, exc |-> "BaseZonisException"]
    ELSE IF SecretMissing(packet) THEN [close |-> 0, exc |-> "KeyError"]
    ELSE IF SecretRejected(packet)
    THEN [close |-> InvalidSecretCode, exc |-> "BaseZonisException"]
    ELSE IF DuplicateRejected(packet)
    THEN [close |-> DuplicateCode, exc |-> "DuplicateConnection"]
    ELSE [close |-> 0, exc |-> ""]

\* mutant: the exception is let through as it is
IdentifyFailed_Reraise(cause) == Raise(cause, "")

\* except Exception as e: raise BaseZonisException("Identify failed") from e
IdentifyFailed(cause) == Raise("BaseZonisException", cause)

\* mutant: the acknowledgment carries an empty payload instead of null
AckPacket_EmptyPayload(identifier) ==
    Packet(identifier, "IDENTIFY", RequestPacket("", ""))

\* Packet(identifier=identifier, type="IDENTIFY", data=None)
AckPacket(identifier) == Packet(identifier, "IDENTIFY", NullData)

NewHandshake ==
    [pc |-> "new", identifier |-> "", wasRegistered |-> FALSE, result |-> Pending]

\* a registry write seen by a request_all suspended in its loop
NoteWrite(es) ==
    IF ra.pc \in {"send", "recv"} /\ es # entries
    THEN [ra EXCEPT !.interfered = TRUE]
    ELSE ra

\* parse_identify(packet, websocket = c) from its entry to its first await, as
\* the values it leaves: either a check fails (close, raise: the call is over)
\* or the websocket is installed and the call suspends in _send
Validate(c, packet) ==
    LET out == IdentifyOutcome(packet)
        es == SetItem(entries, packet.identifier, c)
    IN IF out.exc # ""
       THEN [hs |-> [NewHandshake EXCEPT !.pc = "done",
                                         !.result = IdentifyFailed(out.exc)],
             closeCodes |-> IF out.close # 0
                            THEN Append(closeCodes[c], out.close)
                            ELSE closeCodes[c],
             entries |-> entries,
             ra |-> ra]
       ELSE [hs |-> [NewHandshake EXCEPT
                        !.pc = "ack",
                        !.identifier = packet.identifier,
                        !.wasRegistered = packet.identifier \in Keys(entries)],
             closeCodes |-> closeCodes[c],
             entries |-> es,
             ra |-> NoteWrite(es)]

\* websockets not yet handed to parse_identify; they are numbered in the order
\* of their calls
Fresh(c) == hs[c].pc = "new" /\ \A d \in Conns : d < c => hs[d].pc # "new"

\* the accept loop calls parse_identify(packet, websocket) with the first packet
\* of a websocket
ParseIdentify(c) ==
    /\ Fresh(c)
    /\ \E packet \in ClientPackets :
          LET v == Validate(c, packet)
          IN /\ hs' = [hs EXCEPT ![c] = v.hs]
             /\ closeCodes' = [closeCodes EXCEPT ![c] = v.closeCodes]
             /\ entries' = v.entries
             /\ ra' = v.ra
    /\ UNCHANGED <<config, req, calls, sent, reads, peerClosed, removed>>

\* the awaited _send of the acknowledgment completes or raises; then return
ParseIdentifyAck(c) ==
    /\ hs[c].pc = "ack"
    /\ IF peerClosed[c]
       THEN /\ hs' = [hs EXCEPT ![c] =
                         [NewHandshake EXCEPT
                             !.pc = "done",
                             !.result = IdentifyFailed(SendClosedError)]]
            /\ UNCHANGED <<sent, removed>>
       ELSE /\ sent' = [sent EXCEPT ![c] = Append(@, AckPacket(hs[c].identifier))]
            /\ hs' = [hs EXCEPT ![c] =
                         [NewHandshake EXCEPT
                             !.pc = "done", !.result = Return(hs[c].identifier)]]
            /\ removed' = IF removed = hs[c].identifier THEN "" ELSE removed
    /\ UNCHANGED <<config, entries, req, ra, calls, reads, closeCodes, peerClosed>>

\* -------------------------------------------------------------- disconnect
Disconnect(identifier) ==
    /\ entries' = Pop(entries, identifier)
    /\ ra' = NoteWrite(Pop(entries, identifier))
    /\ removed' = identifier
    /\ UNCHANGED <<config, hs, req, calls, sent, reads, closeCodes, peerClosed>>

\* ----------------------------------------------------------------- request
IdleRequest ==
    [pc |-> "idle", client_identifier |-> "", route |-> "", arguments |-> "",
     conn |-> NoConn, got |-> NoReply, result |-> Pending]

\* mutant: every packet that is not a RESPONSE is taken for a failure
RequestResult_OnlyResponse(packet) ==
    IF packet.type # "RESPONSE"
    THEN Raise("RequestFailed", packet.data)
    ELSE Return(packet.data)

\* if packet["type"] == "FAILURE_RESPONSE": raise RequestFailed(packet["data"])
\* return packet["data"]
RequestResult(packet) ==
    IF packet.type = "FAILURE_RESPONSE"
    THEN Raise("RequestFailed", packet.data)
    ELSE Return(packet.data)

\* Packet(identifier=..., type="REQUEST", data=RequestPacket(route, arguments))
RequestMessage(identifier, route, arguments) ==
    Packet(identifier, "REQUEST", RequestPacket(route, arguments))

\* mutant: the missing connection is not noticed
UnknownClient_Never(conn) == FALSE

\* if not conn: raise UnknownClient
UnknownClient(conn) == conn = NoConn

\* the caller awaits one call of request / request_all at a time (the protocol's
\* one-outstanding-request discipline) and has taken the previous call's result
CallerReady ==
    /\ calls < MaxCalls
    /\ req.pc \in {"idle", "done"}
    /\ ra.pc \in {"idle", "done"}

NoResult == [present |-> FALSE, failed |-> FALSE, data |-> ""]
NoIter == [used |-> 0, pos |-> 0, len |-> 0]

IdleRequestAll ==
    [pc |-> "idle", route |-> "", arguments |-> "", it |-> NoIter,
     i |-> "", conn |-> NoConn,
     results |-> [k \in Ids |-> NoResult], result |-> Pending,
     startKeys |-> {}, interfered |-> FALSE, seen |-> [k \in Ids |-> ""]]

\* conn = self._connections.get(client_identifier); if not conn: raise
\* UnknownClient; otherwise the call suspends in _send
RequestCall ==
    /\ CallerReady
    /\ calls' = calls + 1
    /\ ra' = IdleRequestAll
    /\ \E id \in Ids, route \in Routes, arguments \in Arguments :
          LET conn == Get(entries, id)
              call == [IdleRequest EXCEPT !.client_identifier = id,
                                          !.route = route,
                                          !.arguments = arguments]
          IN req' = IF UnknownClient(conn)
                    THEN [call EXCEPT !.pc = "done",
                                      !.result = Raise("UnknownClient", "")]
                    ELSE [call EXCEPT !.pc = "send", !.conn = conn]
    /\ UNCHANGED <<config, entries, hs, sent, reads, closeCodes, peerClosed,
                   removed>>

\* mutant: a websocket found closed is dropped from the Registry
RequestSend_DropsClosed ==
    /\ req.pc = "send"
    /\ IF peerClosed[req.conn]
       THEN /\ req' = [req EXCEPT !.pc = "done", !.conn = NoConn,
                                  !.result = Raise(SendClosedError, "")]
            /\ entries' = Pop(entries, req.client_identifier)
            /\ UNCHANGED sent
       ELSE /\ sent' = [sent EXCEPT ![req.conn] =
                           Append(@, RequestMessage(req.client_identifier,
                                                    req.route, req.arguments))]
            /\ req' = [req EXCEPT !.pc = "recv"]
            /\ UNCHANGED entries
    /\ UNCHANGED <<config, hs, ra, calls, reads, closeCodes, peerClosed, removed>>

\* the awaited _send of the REQUEST completes or raises
RequestSend ==
    /\ req.pc = "send"
    /\ IF peerClosed[req.conn]
       THEN /\ req' = [req EXCEPT !.pc = "done", !.conn = NoConn,
                                  !.result = Raise(SendClosedError, "")]
            /\ UNCHANGED sent
       ELSE /\ sent' = [sent EXCEPT ![req.conn] =
                           Append(@, RequestMessage(req.client_identifier,
                                                    req.route, req.arguments))]
            /\ req' = [req EXCEPT !.pc = "recv"]
    /\ UNCHANGED <<config, entries, hs, ra, calls, reads, closeCodes, peerClosed,
                   removed>>

\* mutant: the reply is read from the websocket the Registry holds now
RequestRecv_FromRegistry ==
    LET now == Get(entries, req.client_identifier)
        conn == IF now # NoConn THEN now ELSE req.conn
    IN /\ req.pc = "recv"
       /\ reads' = [reads EXCEPT ![conn] = @ + 1]
       /\ IF peerClosed[conn]
          THEN req' = [req EXCEPT !.pc = "done", !.conn = NoConn,
                                  !.result = RecvClosedError]
          ELSE \E packet \in Replies :
                  req' = [req EXCEPT !.pc = "done", !.conn = NoConn,
                                     !.got = packet,
                                     !.result = RequestResult(packet)]
       /\ UNCHANGED <<config, entries, hs, ra, calls, sent, closeCodes, peerClosed,
                      removed>>

\* the awaited _recv completes with the next packet of the websocket or raises
RequestRecv ==
    /\ req.pc = "recv"
    /\ reads' = [reads EXCEPT ![req.conn] = @ + 1]
    /\ IF peerClosed[req.conn]
       THEN req' = [req EXCEPT !.pc = "done", !.conn = NoConn,
                               !.result = RecvClosedError]
       ELSE \E packet \in Replies :
               req' = [req EXCEPT !.pc = "done", !.conn = NoConn,
                                  !.got = packet,
                                  !.result = RequestResult(packet)]
    /\ UNCHANGED <<config, entries, hs, ra, calls, sent, closeCodes, peerClosed,
                   removed>>

\* ------------------------------------------------------------- request_all
\* results[i] = packet["data"]  /  results[i] = RequestFailed(...)
Value(data) == [present |-> TRUE, failed |-> FALSE, data |-> data]
RequestFailedValue(data) == [present |-> TRUE, failed |-> TRUE, data |-> data]

\* request_all has returned or raised: its frame is gone
Finish(a, result) ==
    [a EXCEPT !.pc = "done", !.result = result, !.it = NoIter, !.i = "",
              !.conn = NoConn]

\* except ConnectionClosedOK
Caught(exc) == exc = "ConnectionClosedOK"

\* one step of `for i, conn in self._connections.items()`: CPython's dict
\* iterator raises RuntimeError when the dict's size differs from the size at
\* the iterator's creation (or an item turns up after all expected ones were
\* produced), otherwise yields the next live entry or stops; after the loop the
\* function returns results
ForNext(a, es) ==
    LET rest == {k \in LiveSlots(es) : k > a.it.pos}
        k == CHOOSE m \in rest : \A n \in rest : m <= n
    IN IF a.it.used # Used(es)
       THEN Finish(a, Raise("RuntimeError",
                            "dictionary changed size during iteration"))
       ELSE IF rest = {}
       THEN Finish(a, Return("results"))
       ELSE IF a.it.len = 0
       THEN Finish(a, Raise("RuntimeError",
                            "dictionary keys changed during iteration"))
       ELSE [a EXCEPT !.pc = "send", !.i = es[k].key, !.conn = es[k].conn,
                      !.it = [used |-> a.it.used, pos |-> k, len |-> a.it.len - 1]]

\* an exception raised inside the loop body: stored when caught, else it leaves
\* request_all
ForRaised(a, e, es) ==
    IF Caught(e.exc)
    THEN ForNext([a EXCEPT !.results[a.i] = RequestFailedValue("Connection Closed")], es)
    ELSE Finish(a, e)

\* if packet["type"] == "FAILURE_RESPONSE": results[i] = RequestFailed(...)
\* else: results[i] = packet["data"]
ResultValue(packet) ==
    IF packet.type = "FAILURE_RESPONSE"
    THEN RequestFailedValue(packet.data)
    ELSE Value(packet.data)

\* results = {}; the iterator is created and asked for its first item
RequestAllCall ==
    /\ CallerReady
    /\ calls' = calls + 1
    /\ req' = IdleRequest
    /\ \E route \in Routes, arguments \in Arguments :
          ra' = ForNext([IdleRequestAll EXCEPT
                            !.route = route, !.arguments = arguments,
                            !.it = [used |-> Used(entries), pos |-> 0,
                                    len |-> Used(entries)],
                            !.startKeys = Keys(entries)], entries)
    /\ UNCHANGED <<config, entries, hs, sent, reads, closeCodes, peerClosed,
                   removed>>

\* the awaited _send of the loop body completes or raises
RequestAllSend ==
    /\ ra.pc = "send"
    /\ IF peerClosed[ra.conn]
       THEN /\ ra' = ForRaised([ra EXCEPT !.seen[ra.i] = "send closed"],
                               Raise(SendClosedError, ""), entries)
            /\ UNCHANGED sent
       ELSE /\ sent' = [sent EXCEPT ![ra.conn] =
                           Append(@, RequestMessage(ra.i, ra.route, ra.arguments))]
            /\ ra' = [ra EXCEPT !.pc = "recv"]
    /\ UNCHANGED <<config, entries, hs, req, calls, reads, closeCodes, peerClosed,
                   removed>>

\* the awaited _recv of the loop body completes or raises; the result is
\* stored and the loop goes on to the next item
RequestAllRecv ==
    /\ ra.pc = "recv"
    /\ reads' = [reads EXCEPT ![ra.conn] = @ + 1]
    /\ IF peerClosed[ra.conn]
       THEN ra' = ForRaised([ra EXCEPT !.seen[ra.i] = "closed"],
                            RecvClosedError, entries)
       ELSE \E packet \in Replies :
               ra' = ForNext([ra EXCEPT !.seen[ra.i] = packet.type,
                                        !.results[ra.i] = ResultValue(packet)],
                             entries)
    /\ UNCHANGED <<config, entries, hs, req, calls, sent, closeCodes, peerClosed,
                   removed>>

\* ------------------------------------------------------------ environment
\* a websocket the server may still send to or read from
InUse(c) ==
    \/ hs[c].pc = "ack"
    \/ \E k \in LiveSlots(entries) : entries[k].conn = c
    \/ req.pc \in {"send", "recv"} /\ req.conn = c
    \/ ra.pc \in {"send", "recv"} /\ ra.conn = c

\* the peer goes away: from now on the transport reports the websocket closed
\* (of interest only while the server can still use the websocket)
PeerClose(c) ==
    /\ ~peerClosed[c]
    /\ InUse(c)
    /\ peerClosed' = [peerClosed EXCEPT ![c] = TRUE]
    /\ UNCHANGED <<config, entries, hs, req, ra, calls, sent, reads, closeCodes,
                   removed>>

\* ----------------------------------------------------------- specification
\* Server(using_fastapi_websockets=..., override_key=..., secret_key=...)
Init ==
    /\ using_fastapi_websockets \in BOOLEAN
    /\ _secret_key \in SecretKeyParams
    /\ \E override_key \in OverrideKeyParams :
          _override_key = IF override_key # None THEN override_key ELSE TokenHex
    /\ entries = <<>>
    /\ hs = [c \in Conns |-> NewHandshake]
    /\ req = IdleRequest
    /\ ra = IdleRequestAll
    /\ calls = 0
    /\ sent = [c \in Conns |-> <<>>]
    /\ reads = [c \in Conns |-> 0]
    /\ closeCodes = [c \in Conns |-> <<>>]
    /\ peerClosed = [c \in Conns |-> FALSE]
    /\ removed = ""

Next ==
    \/ \E c \in Conns : ParseIdentify(c)
    \/ \E c \in Conns : ParseIdentifyAck(c)
    \/ \E id \in Ids : Disconnect(id)
    \/ \E c \in Conns : PeerClose(c)
    \/ RequestCall
    \/ RequestSend
    \/ RequestRecv
    \/ RequestAllCall
    \/ RequestAllSend
    \/ RequestAllRecv

Spec == Init /\ [][Next]_vars

\* ------------------------------------------------------------------ claims
\* websockets the Registry holds
Registered(c) == \E k \in LiveSlots(entries) : entries[k].conn = c

\* an IDENTIFY packet that has its data and secret_key fields
WellFormed(packet) ==
    /\ packet.type = "IDENTIFY"
    /\ packet.data.present
    /\ packet.data.secret_key # Missing

\* IDENTIFY packets with data = null and this identifier among the sent ones
Acks(c, id) ==
    {k \in 1..Len(sent[c]) :
        sent[c][k] = [identifier |-> id, type |-> "IDENTIFY", data |-> NullData]}

\* C1 as claimed: every parse_identify call with an IDENTIFY packet, the
\* configured secret and an identifier not registered at that moment ends with
\* the identifier registered to its websocket and exactly one acknowledgment
\* (IDENTIFY, data = null, that identifier) sent on that websocket.
C1_Claimed ==
    [][\A c \in Conns :
          (hs[c].pc = "ack" /\ ~hs[c].wasRegistered /\ hs'[c].pc = "done")
          => /\ Get(entries', hs[c].identifier) = c
             /\ Cardinality({k \in 1..Len(sent'[c]) :
                   sent'[c][k] = [identifier |-> hs[c].identifier,
                                  type |-> "IDENTIFY",
                                  data |-> NullData]}) = 1]_vars

\* C1 amended: such a call installs the identifier, mapped to its websocket,
\* before it awaits the send and closes nothing; when the transport accepts the
\* send, the call returns the identifier having sent exactly one IDENTIFY packet
\* with data = null and that identifier on that websocket, and the call's own
\* steps leave the Registry entry in place; when the send fails, nothing is sent.
C1_ValidIdentifyRegistersAndAcks ==
    /\ [](\A c \in Conns, packet \in ClientPackets :
            ( /\ hs[c].pc = "new"
              /\ WellFormed(packet)
              /\ packet.data.secret_key = _secret_key
              /\ packet.identifier \notin Keys(entries) )
            => LET v == Validate(c, packet)
               IN /\ v.hs.pc = "ack"
                  /\ v.hs.identifier = packet.identifier
                  /\ Keys(v.entries) = Keys(entries) \cup {packet.identifier}
                  /\ Get(v.entries, packet.identifier) = c
                  /\ \A id \in Keys(entries) : Get(v.entries, id) = Get(entries, id)
                  /\ v.closeCodes = closeCodes[c])
    /\ [](\A c \in Conns :
            /\ hs[c].pc = "ack" => Acks(c, hs[c].identifier) = {}
            /\ (hs[c].pc = "done" /\ hs[c].result.kind = "return")
               => Cardinality(Acks(c, hs[c].result.value)) = 1)
    /\ [][\A c \in Conns :
            (hs[c].pc = "ack" /\ hs'[c].pc = "done")
            => /\ entries' = entries
               /\ closeCodes' = closeCodes
               /\ IF peerClosed[c]
                  THEN sent' = sent /\ hs'[c].result.kind = "raise"
                  ELSE /\ hs'[c].result = Return(hs[c].identifier)
                       /\ sent' = [sent EXCEPT ![c] =
                                      Append(@, [identifier |-> hs[c].identifier,
                                                 type |-> "IDENTIFY",
                                                 data |-> NullData])]]_vars

\* a handshake for an identifier that was not registered has returned
C1_Witness ==
    \E c \in Conns :
       /\ hs[c].pc = "done"
       /\ hs[c].result.kind = "return"
       /\ Get(entries, hs[c].result.value) = c
       /\ sent[c] = <<[identifier |-> hs[c].result.value, type |-> "IDENTIFY",
                       data |-> NullData]>>
       /\ \A d \in Conns \ {c} : hs[d].pc = "new"

\* C2: a parse_identify call whose IDENTIFY packet carries a secret_key other
\* than the configured one, whatever its identifier and override_key, leaves
\* the Registry as it was, closes the offered websocket with code 4100 and ends
\* the call with an error, so that no acknowledgment is ever sent on it.
C2_WrongSecretRejected ==
    /\ [](\A c \in Conns, packet \in ClientPackets :
            ( /\ hs[c].pc = "new"
              /\ WellFormed(packet)
              /\ packet.data.secret_key # _secret_key )
            => LET v == Validate(c, packet)
               IN /\ v.entries = entries
                  /\ v.closeCodes = <<4100>>
                  /\ v.hs.pc = "done"
                  /\ v.hs.result.kind = "raise")
    /\ [](\A c \in Conns :
            closeCodes[c] = <<4100>>
            => sent[c] = <<>> /\ hs[c].pc = "done" /\ ~Registered(c))
    /\ [][\A c \in Conns :
            (hs[c].pc = "new" /\ closeCodes'[c] = <<4100>>)
            => entries' = entries /\ sent' = sent]_vars

\* a websocket was rejected for its secret while an identifier was registered
C2_Witness ==
    \E c \in Conns :
       /\ closeCodes[c] = <<4100>>
       /\ hs[c].result.kind = "raise"
       /\ Keys(entries) # {}

\* C3: for a registered identifier, a parse_identify with the configured secret
\* and an override_key that is absent or differs from the configured override
\* key leaves the Registry entry on the original websocket, closes the new
\* websocket with code 4102, and neither closes nor sends on the original one.
C3_DuplicateRejected ==
    /\ [](\A c \in Conns, packet \in ClientPackets :
            ( /\ hs[c].pc = "new"
              /\ WellFormed(packet)
              /\ packet.data.secret_key = _secret_key
              /\ packet.identifier \in Keys(entries)
              /\ \/ packet.data.override_key = None
                 \/ packet.data.override_key # _override_key )
            => LET v == Validate(c, packet)
               IN /\ v.entries = entries
                  /\ Get(v.entries, packet.identifier) # c
                  /\ v.closeCodes = <<4102>>
                  /\ v.hs.pc = "done"
                  /\ v.hs.result.kind = "raise")
    /\ [][\A c \in Conns :
            (hs[c].pc = "new" /\ closeCodes'[c] = <<4102>>)
            => /\ entries' = entries
               /\ sent' = sent
               /\ \A d \in Conns \ {c} : closeCodes'[d] = closeCodes[d]]_vars

\* a second websocket was rejected as a duplicate; the first is still
\* registered and was never closed
C3_Witness ==
    \E c \in Conns, d \in Conns :
       /\ c # d
       /\ closeCodes[c] = <<4102>>
       /\ Registered(d)
       /\ closeCodes[d] = <<>>

\* C4 as claimed: whatever the configured override key (the empty string
\* included), for a registered identifier a parse_identify with the configured
\* secret and an override_key equal to the configured one passes the checks:
\* the Registry entry then points to the new websocket, which is not closed.
C4_Claimed ==
    \A c \in Conns, packet \in ClientPackets :
       ( /\ hs[c].pc = "new"
         /\ WellFormed(packet)
         /\ packet.data.secret_key = _secret_key
         /\ packet.identifier \in Keys(entries)
         /\ packet.data.override_key = _override_key )
       => LET v == Validate(c, packet)
          IN /\ v.hs.pc = "ack"
             /\ Get(v.entries, packet.identifier) = c
             /\ v.closeCodes = <<>>

\* C5: request for an identifier that is not in the Registry at the call raises
\* UnknownClient, sends nothing, reads nothing and leaves the Registry as it was.
C5_UnknownClient ==
    [][( /\ calls' = calls + 1
         /\ req'.client_identifier \in Ids
         /\ req'.client_identifier \notin Keys(entries) )
       => /\ req'.pc = "done"
          /\ req'.result = [kind |-> "raise", exc |-> "UnknownClient", value |-> ""]
          /\ sent' = sent
          /\ reads' = reads
          /\ entries' = entries]_vars

\* a request was refused while another identifier was registered
C5_Witness ==
    /\ req.pc = "done"
    /\ req.result.exc = "UnknownClient"
    /\ Keys(entries) # {}
    /\ req.client_identifier \notin Keys(entries)

\* C6 as claimed: when every REQUEST could be sent and no Registry write
\* interferes, request_all returns a mapping with one key per client
\* registered at its start: the reply data for a client that answered with
\* another type than FAILURE_RESPONSE, a RequestFailed value for one that
\* answered FAILURE_RESPONSE or whose websocket was reported closed before it
\* replied, in either transport mode.
C6_Claimed ==
    (ra.pc = "done" /\ ~ra.interfered /\ \A k \in Ids : ra.seen[k] # "send closed")
    => /\ ra.result.kind = "return"
       /\ {k \in Ids : ra.results[k].present} = ra.startKeys
       /\ \A k \in ra.startKeys :
             ra.results[k].failed <=> ra.seen[k] \in {"closed", "FAILURE_RESPONSE"}

\* C7 as claimed: when a handshake or a disconnect wrote the Registry while
\* request_all was suspended (and no websocket was reported closed to it),
\* request_all still returns, with exactly the identifiers registered when its
\* iteration started as keys.
C7_Claimed ==
    ( /\ ra.pc = "done"
      /\ ra.interfered
      /\ \A k \in Ids : ra.seen[k] \notin {"closed", "send closed"} )
    => /\ ra.result.kind = "return"
       /\ {k \in Ids : ra.results[k].present} = ra.startKeys

\* C8: request for a registered identifier picks its websocket without sending,
\* then sends exactly one REQUEST packet with the identifier, route and
\* arguments on it, then reads once; the packet delivered decides the outcome:
\* RequestFailed carrying its data when its type is FAILURE_RESPONSE, its data
\* returned otherwise.
C8_RequestOutcome ==
    [][/\ ( /\ calls' = calls + 1
            /\ req'.client_identifier \in Keys(entries) )
          => /\ req'.pc = "send"
             /\ req'.conn = Get(entries, req'.client_identifier)
             /\ sent' = sent
             /\ reads' = reads
       /\ (req.pc = "send" /\ req'.pc = "recv")
          => /\ sent' = [sent EXCEPT ![req.conn] =
                            Append(@, [identifier |-> req.client_identifier,
                                       type |-> "REQUEST",
                                       data |-> [null |-> FALSE,
                                                 route |-> req.route,
                                                 arguments |-> req.arguments]])]
             /\ reads' = reads
             /\ req'.conn = req.conn
       /\ (req.pc = "recv" /\ req'.pc = "done" /\ req'.got # NoReply)
          => /\ sent' = sent
             /\ reads' = [reads EXCEPT ![req.conn] = @ + 1]
             /\ req'.got \in Replies
             /\ req'.result =
                   IF req'.got.type = "FAILURE_RESPONSE"
                   THEN [kind |-> "raise", exc |-> "RequestFailed",
                         value |-> req'.got.data]
                   ELSE [kind |-> "return", exc |-> "", value |-> req'.got.data]]_vars

\* a request was answered with FAILURE_RESPONSE and raised RequestFailed
C8_Witness ==
    /\ req.pc = "done"
    /\ req.got = [type |-> "FAILURE_RESPONSE", data |-> "boom"]
    /\ req.result = [kind |-> "raise", exc |-> "RequestFailed", value |-> "boom"]
    /\ \E c \in Conns : Len(sent[c]) = 2 /\ sent[c][2].type = "REQUEST" /\ reads[c] = 1

\* C9 as claimed: after disconnect(id), with no parse_identify for id returned
\* or under way since, a request for id raises UnknownClient and sends nothing.
C9_Claimed ==
    [][( /\ calls' = calls + 1
         /\ removed \in Ids
         /\ req'.client_identifier = removed
         /\ \A c \in Conns : ~(hs[c].pc = "ack" /\ hs[c].identifier = removed) )
       => /\ req'.result = [kind |-> "raise", exc |-> "UnknownClient", value |-> ""]
          /\ req'.pc = "done"
          /\ sent' = sent]_vars

\* C10 as claimed: every parse_identify call that ended in an error has closed
\* the offered websocket.
C10_Claimed ==
    \A c \in Conns :
       (hs[c].pc = "done" /\ hs[c].result.kind = "raise") => closeCodes[c] # <<>>

\* C11 as claimed: when the transport reports the websocket closed while
\* request is sending or awaiting the reply, request raises RequestFailed, in
\* both transport modes, and the server closes no websocket.
C11_Claimed ==
    [][( /\ req.pc \in {"send", "recv"}
         /\ peerClosed[req.conn]
         /\ req'.pc = "done" )
       => /\ req'.result.kind = "raise"
          /\ req'.result.exc = "RequestFailed"
          /\ closeCodes' = closeCodes]_vars

\* a step of disconnect that shows in the state: an identifier leaves the
\* Registry or becomes the one last disconnected
DisconnectStep ==
    \/ removed' \in Ids /\ removed' # removed
    \/ Keys(entries') # Keys(entries) /\ Keys(entries') \subseteq Keys(entries)

\* C12: disconnect(identifier) removes exactly the entry of that identifier and
\* leaves every other entry as it was, is a no-op for an absent identifier,
\* gives the same Registry applied twice as applied once, and neither sends on,
\* reads from nor closes any websocket.
C12_DisconnectFrame ==
    /\ [](\A id \in Ids :
            LET es == Pop(entries, id)
            IN /\ Keys(es) = Keys(entries) \ {id}
               /\ \A other \in Keys(entries) \ {id} :
                     Get(es, other) = Get(entries, other)
               /\ Get(es, id) = NoConn
               /\ id \notin Keys(entries) => es = entries
               /\ Pop(es, id) = es)
    /\ [][DisconnectStep
          => /\ \E id \in Ids :
                   /\ Keys(entries') = Keys(entries) \ {id}
                   /\ \A other \in Keys(entries) \ {id} :
                         Get(entries', other) = Get(entries, other)
             /\ sent' = sent
             /\ reads' = reads
             /\ closeCodes' = closeCodes
             /\ peerClosed' = peerClosed
             /\ hs' = hs
             /\ req' = req]_vars

\* an identifier was disconnected while another one stays registered
C12_Witness ==
    /\ removed \in Ids
    /\ removed \notin Keys(entries)
    /\ \E k \in 1..Len(entries) : entries[k] = Dummy
    /\ Keys(entries) # {}

\* C13: a parse_identify call that does not return raises BaseZonisException
\* and nothing else, whether the cause is an unexpected type, a wrong secret, a
\* duplicate identifier, a missing field or an error of the transport while the
\* acknowledgment is sent.
C13_OneHandshakeError ==
    /\ \A c \in Conns, packet \in ClientPackets :
          hs[c].pc = "new"
          => LET v == Validate(c, packet)
             IN v.hs.pc = "done"
                => /\ v.hs.result.kind = "raise"
                   /\ v.hs.result.exc = "BaseZonisException"
    /\ \A c \in Conns :
          hs[c].pc = "done"
          => \/ hs[c].result.kind = "return" /\ hs[c].result.value \in Ids
             \/ /\ hs[c].result.kind = "raise"
                /\ hs[c].result.exc = "BaseZonisException"
                /\ hs[c].result.value \in
                      {"KeyError", "BaseZonisException", "DuplicateConnection",
                       "ConnectionClosedOK", "WebSocketDisconnect"}

\* one handshake failed on a transport error, another as a duplicate
C13_Witness ==
    \E c \in Conns, d \in Conns :
       /\ hs[c].pc = "done"
       /\ hs[c].result.kind = "raise"
       /\ hs[c].result.value \in {"ConnectionClosedOK", "WebSocketDisconnect"}
       /\ hs[d].pc = "done"
       /\ hs[d].result.kind = "raise"
       /\ hs[d].result.value = "DuplicateConnection"

\* a step of request or of request_all
RequestStep ==
    \/ calls' # calls
    \/ req' # req
    \/ ra' # ra /\ ra'.interfered = ra.interfered

\* C14: no step of request or request_all changes the Registry, whatever the
\* outcome (value returned, FAILURE_RESPONSE, websocket reported closed,
\* UnknownClient); a websocket a request found closed stays registered.
C14_RequestsKeepRegistry ==
    [][RequestStep => entries' = entries]_vars

\* a request has failed on a closed websocket, which is still registered
C14_Witness ==
    /\ req.pc = "done"
    /\ req.result = RecvClosedError
    /\ \E c \in Conns :
          /\ Get(entries, req.client_identifier) = c
          /\ peerClosed[c]
          /\ reads[c] = 1

\* identifiers whose entry a step adds or points to another websocket
Written ==
    {id \in Keys(entries') :
        id \notin Keys(entries) \/ Get(entries', id) # Get(entries, id)}

\* C15: in every state reached by parse_identify, disconnect, request and
\* request_all, the Registry holds each identifier at most once; every entry
\* (id, conn) was installed by the parse_identify called with conn, on a packet
\* of type IDENTIFY with identifier id and the configured secret_key, and conn
\* was never closed by the server; no other step adds or replaces an entry.
C15_RegistryInvariant ==
    /\ [](/\ \A j \in LiveSlots(entries), k \in LiveSlots(entries) :
                entries[j].key = entries[k].key => j = k
          /\ \A k \in LiveSlots(entries) :
                /\ entries[k].key \in Ids
                /\ entries[k].conn \in Conns
                /\ hs[entries[k].conn].pc \in {"ack", "done"}
                /\ closeCodes[entries[k].conn] = <<>>
          /\ \A c \in Conns, packet \in ClientPackets :
                hs[c].pc = "new"
                => LET v == Validate(c, packet)
                   IN v.entries # entries
                      => /\ packet.type = "IDENTIFY"
                         /\ packet.data.secret_key = _secret_key
                         /\ v.hs.pc = "ack"
                         /\ v.hs.identifier = packet.identifier
                         /\ v.entries = SetItem(entries, packet.identifier, c)
                         /\ Get(v.entries, packet.identifier) = c
                         /\ \A id \in Ids \ {packet.identifier} :
                               Get(v.entries, id) = Get(entries, id))
    /\ [][Written # {}
          => \E c \in Conns :
                /\ hs[c].pc = "new"
                /\ hs'[c].pc = "ack"
                /\ Written = {hs'[c].identifier}
                /\ Get(entries', hs'[c].identifier) = c
                /\ closeCodes'[c] = <<>>]_vars

\* an override handshake has replaced the entry of a returned handshake
C15_Witness ==
    \E c \in Conns, d \in Conns :
       /\ c # d
       /\ hs[c].pc = "done"
       /\ hs[c].result.kind = "return"
       /\ ~Registered(c)
       /\ hs[d].pc = "done"
       /\ hs[d].result = Return(hs[c].result.value)
       /\ Get(entries, hs[c].result.value) = d

\* C16: parse_identify checks in a fixed order and closes at most once: a
\* packet with a type other than IDENTIFY is closed with 4101 whatever its
\* secret and identifier; otherwise a wrong secret_key is closed with 4100
\* whether or not the identifier is registered; otherwise a registered
\* identifier whose override_key is absent or not the configured one is closed
\* with 4102; the three codes differ and a handshake that passes the checks or
\* returns has closed nothing.
C16_CheckOrder ==
    /\ Cardinality({UnexpectedTypeCode, InvalidSecretCode, DuplicateCode}) = 3
    /\ \A c \in Conns :
          /\ Len(closeCodes[c]) <= 1
          /\ ( \/ hs[c].pc \in {"new", "ack"}
               \/ hs[c].result.kind = "return" ) => closeCodes[c] = <<>>
    /\ \A c \in Conns, packet \in ClientPackets :
          (hs[c].pc = "new" /\ packet.type # Missing)
          => LET v == Validate(c, packet)
             IN /\ Len(v.closeCodes) <= 1
                /\ v.hs.pc = "ack" => v.closeCodes = <<>>
                /\ IF packet.type # "IDENTIFY"
                   THEN v.closeCodes = <<4101>>
                   ELSE IF ~WellFormed(packet)
                   THEN v.closeCodes = <<>>
                   ELSE IF packet.data.secret_key # _secret_key
                   THEN v.closeCodes = <<4100>>
                   ELSE ( /\ packet.identifier \in Keys(entries)
                          /\ \/ packet.data.override_key = None
                             \/ packet.data.override_key # _override_key )
                        => v.closeCodes = <<4102>>

\* a packet of another type was closed with 4101 while an identifier was
\* registered
C16_Witness ==
    \E c \in Conns :
       /\ closeCodes[c] = <<4101>>
       /\ hs[c].result.kind = "raise"
       /\ Keys(entries) # {}

\* C17: a request sends its REQUEST and reads its one reply on the websocket the
\* Registry held for the identifier when the request started, also when the
\* entry is replaced by an override handshake or removed by disconnect while
\* the request is suspended; no other websocket is sent to or read from.
C17_SameConnection ==
    /\ [](req.pc \in {"send", "recv"} => req.conn \in Conns)
    /\ [][/\ (calls' = calls + 1 /\ req'.pc = "send")
             => req'.conn = Get(entries, req'.client_identifier)
          /\ (req.pc \in {"send", "recv"} /\ req'.pc \in {"send", "recv"})
             => req'.conn = req.conn
          /\ (req.pc = "send" /\ req'.pc = "recv")
             => /\ \A d \in Conns \ {req.conn} : sent'[d] = sent[d]
                /\ Len(sent'[req.conn]) = Len(sent[req.conn]) + 1
                /\ reads' = reads
          /\ (req.pc = "recv" /\ req'.pc = "done")
             => /\ \A d \in Conns \ {req.conn} : reads'[d] = reads[d]
                /\ reads'[req.conn] = reads[req.conn] + 1
                /\ sent' = sent]_vars

\* a request got its reply on the websocket it started with although an
\* override handshake had given the identifier to another websocket
C17_Witness ==
    /\ req.pc = "done"
    /\ req.got \in Replies
    /\ \E c \in Conns, d \in Conns :
          /\ c # d
          /\ Get(entries, req.client_identifier) = d
          /\ reads[d] = 0
          /\ \A k \in 1..Len(sent[d]) : sent[d][k].type # "REQUEST"
          /\ reads[c] = 1
          /\ \E k \in 1..Len(sent[c]) : sent[c][k].type = "REQUEST"

\* the outcome of a request awaiting its reply, by transport mode: the
\* websocket is reported closed or delivers a packet
RequestOutcomeIn(fastapi, closed, packet) ==
    IF closed THEN RecvClosedErrorOf(fastapi) ELSE RequestResult(packet)

\* the same for the client request_all is at: what request_all goes on with
RequestAllOutcomeIn(fastapi, closed, packet) ==
    IF closed
    THEN ForRaised(ra, RecvClosedErrorOf(fastapi), entries)
    ELSE ForNext([ra EXCEPT !.results[ra.i] = ResultValue(packet)], entries)

\* C18 as claimed: for the same event on the awaited websocket (a reply, a
\* FAILURE_RESPONSE, the websocket reported closed), request ends the same way
\* and request_all goes on with the same results, or ends with the same
\* result, with using_fastapi_websockets true as with it false.
C18_Claimed ==
    /\ req.pc = "recv"
       => \A packet \in Replies :
             RequestOutcomeIn(TRUE, peerClosed[req.conn], packet)
             = RequestOutcomeIn(FALSE, peerClosed[req.conn], packet)
    /\ ra.pc = "recv"
       => \A packet \in Replies :
             LET t == RequestAllOutcomeIn(TRUE, peerClosed[ra.conn], packet)
                 f == RequestAllOutcomeIn(FALSE, peerClosed[ra.conn], packet)
             IN t.result = f.result /\ t.results = f.results /\ t.pc = f.pc

\* C19 as claimed: a parse_identify call that raised has left the Registry as
\* it was before the call, so its websocket is not registered.
C19_Claimed ==
    \A c \in Conns :
       (hs[c].pc = "done" /\ hs[c].result.kind = "raise") => ~Registered(c)

\* C20 as claimed: the first packet the server sends on a websocket is the
\* IDENTIFY acknowledgment; no REQUEST is sent on it before.
C20_Claimed ==
    \A c \in Conns :
       sent[c] # <<>> => sent[c][1].type = "IDENTIFY" /\ sent[c][1].data = NullData

====
